---- MODULE Spec2Model ----
(***************************************************************************)
(* Model of the resume editor: the template formatter and parser, the      *)
(* editor content bridge (both ResumeEditor variants), the edit-mode       *)
(* manager and the direct-edit hook.                                       *)
(*                                                                         *)
(* Text is a sequence of tokens.  A token is either one of the fixed       *)
(* fragments of the template, a whitespace token ("NL" is a line feed,     *)
(* "SP" a space) or a letter of user text.  "H2_DETAILS" is the text of    *)
(* the details header (two hash marks, a space and the four-character      *)
(* section title), so the marker the parser looks for is that token        *)
(* followed by two "NL".                                                   *)
(***************************************************************************)
EXTENDS Integers, Sequences, FiniteSets, TLC

VARIABLES
  fx,                 \* last application of a pure function (SpecFmt only)
  variant,            \* "md": ResumeEditor over MarkdownEditor, "html": over HtmlRichEditor
  mode, id,           \* route: mode of the page and the :id parameter
  formData, isEditing, step,            \* page state as of the last render
  editorContent, internalIsEditing,     \* ResumeEditor state as of the last render
  isLoading, hasAttemptedFetch,         \* useDirectEditMode state as of the last render
  queued,             \* state values set since (React applies them at the next render)
  effectsRun,         \* the mount effects have run
  timers,             \* pending setTimeout callbacks
  pendingSaveRef,     \* useEditModeManager's ref
  requests,           \* fetches in flight
  fetchCount, populateCount, fetchFailed,   \* history of the direct-edit fetch
  navigated, mounted, \* navigate("/dashboard") was called; the page is still mounted
  surface,            \* the HtmlRichEditor: its value prop, document, isLoading, timers
  last                \* the last handler invocation and the calls it made

(***************************************************************************)
(* Bounds                                                                  *)
(***************************************************************************)
MaxLen == 4        \* longest input text given to the parser
MaxDescLen == 2    \* longest description of a formatted record
MaxJobs == 1       \* most previous jobs / additional educations of a record
MaxFetch == 2      \* most fetch requests issued in one run

(***************************************************************************)
(* Text helpers (JavaScript string operations on token sequences)          *)
(***************************************************************************)
NL == "NL"
SP == "SP"
H2_DETAILS == "H2_DETAILS"
Undef == <<"undefined">>
\* no prompt where the description is empty
Placeholder_blank == <<>>

Placeholder == <<"PLACEHOLDER_PROMPT">>

IsWhitespace(t) == t \in {NL, SP}

RECURSIVE trimStart(_)
trimStart(s) ==
  IF s # <<>> /\ IsWhitespace(Head(s)) THEN trimStart(Tail(s)) ELSE s

RECURSIVE trimEnd(_)
trimEnd(s) ==
  IF s # <<>> /\ IsWhitespace(s[Len(s)])
    THEN trimEnd(SubSeq(s, 1, Len(s) - 1))
    ELSE s

trim(s) == trimEnd(trimStart(s))

\* x || "" : an absent or empty value reads as the empty string
Falsy(x) == x = <<>> \/ x = Undef
OrEmpty(x) == IF Falsy(x) THEN <<>> ELSE x

RECURSIVE Join(_, _)
Join(parts, sep) ==
  IF parts = <<>> THEN <<>>
  ELSE IF Len(parts) = 1 THEN parts[1]
  ELSE parts[1] \o sep \o Join(Tail(parts), sep)

\* String.prototype.replace with a string pattern: the first occurrence only
RECURSIVE ReplaceFirst(_, _, _)
ReplaceFirst(s, from, to) ==
  IF s = <<>> THEN <<>>
  ELSE IF Head(s) = from THEN <<to>> \o Tail(s)
  ELSE <<Head(s)>> \o ReplaceFirst(Tail(s), from, to)

(***************************************************************************)
(* formatDate, parseTemplateContent, formatTemplateContent                 *)
(***************************************************************************)
RECURSIVE ReplaceAll(_, _, _)
ReplaceAll(s, from, to) ==
  IF s = <<>> THEN <<>>
  ELSE <<IF Head(s) = from THEN to ELSE Head(s)>>
       \o ReplaceAll(Tail(s), from, to)

\* the year marker put in place of every separator
formatDate_everySeparator(date) ==
  IF Falsy(date) THEN <<>> ELSE ReplaceAll(date, "-", "NEN") \o <<"GATSU">>

formatDate(date) ==
  IF Falsy(date) THEN <<>> ELSE ReplaceFirst(date, "-", "NEN") \o <<"GATSU">>

DetailsMarker == <<H2_DETAILS, NL, NL>>

\* positions where /## <details>\n\n/ matches
MarkerPositions(content) ==
  {i \in 1..Len(content) :
     i + 2 <= Len(content) /\ SubSeq(content, i, i + 2) = DetailsMarker}

HasMarker(content) == MarkerPositions(content) # {}

FirstMarker(content) ==
  CHOOSE i \in MarkerPositions(content) :
    \A j \in MarkerPositions(content) : i <= j

\* the pattern without its blank line: the header alone is the marker
parseTemplateContent_headerOnly(content) ==
  IF \E i \in 1..Len(content) : content[i] = H2_DETAILS
    THEN trim(SubSeq(content,
                     1 + CHOOSE i \in 1..Len(content) :
                           /\ content[i] = H2_DETAILS
                           /\ \A j \in 1..(i - 1) : content[j] # H2_DETAILS,
                     Len(content)))
    ELSE content

\* content.match(/## <details>\n\n([\s\S]*?)$/): the leftmost match wins and
\* the lazy group runs to the end of the input; a miss returns content as is.
parseTemplateContent(content) ==
  IF HasMarker(content)
    THEN trim(SubSeq(content, FirstMarker(content) + 3, Len(content)))
    ELSE content

\* an entry made of its optional lines only
formatEducationHistory_optionalOnly(edu) ==
  (IF Falsy(edu.faculty) THEN <<>>
   ELSE <<"**FACULTY:**", SP>> \o edu.faculty \o <<SP, SP>>)
  \o (IF Falsy(edu.major) THEN <<>> ELSE <<"**MAJOR:**", SP>> \o edu.major)

formatEducationHistory(edu) ==
  <<"###", SP>> \o OrEmpty(edu.schoolName) \o <<NL>>
  \o <<"**GRADUATED:**", SP>> \o formatDate(edu.graduationDate) \o <<SP, SP, NL>>
  \o <<"**DEPARTMENT:**", SP>> \o OrEmpty(edu.department) \o <<SP, SP, NL>>
  \o (IF Falsy(edu.faculty) THEN <<>>
      ELSE <<"**FACULTY:**", SP>> \o edu.faculty \o <<SP, SP>>)
  \o <<NL>>
  \o (IF Falsy(edu.major) THEN <<>> ELSE <<"**MAJOR:**", SP>> \o edu.major)

formatPreviousJob(job) ==
  <<"###", SP>> \o OrEmpty(job.companyName) \o <<NL, NL>>
  \o (IF Falsy(job.companyUrl) THEN <<>>
      ELSE <<"URL:", SP>> \o job.companyUrl \o <<SP, SP, NL>>)
  \o <<NL>>
  \o <<"**PERIOD:**", SP>> \o formatDate(job.startDate) \o <<SP, "~", SP>>
  \o formatDate(job.endDate) \o <<SP, SP, NL>>
  \o <<"**POSITION:**", SP>> \o OrEmpty(job.position) \o <<SP, SP, NL>>
  \o <<"**TITLE:**", SP>> \o OrEmpty(job.title) \o <<SP, SP, NL>>
  \o <<NL>>
  \o <<"####", SP, "ACHIEVEMENTS", NL>>
  \o OrEmpty(job.achievements)

formatTemplateContent(data) ==
  \* every record of the program carries the list, so its truthiness test passes
  LET educationHistories ==
        Join([i \in 1..Len(data.educationHistories) |->
                formatEducationHistory(data.educationHistories[i])],
             <<NL, NL>>)
  IN
  <<"#", SP, "RESUME_TITLE", NL, NL>>
  \o <<"##", SP, "BASIC_INFO", NL, NL>>
  \o <<"|", SP, "ITEM", SP, "|", SP, "CONTENT", SP, "|", NL>>
  \o <<"|------|------|", NL>>
  \o <<"|", SP, "NAME", SP, "|", SP>> \o OrEmpty(data.name) \o <<SP, "|", NL>>
  \o <<"|", SP, "TARGET_POSITION", SP, "|", SP>> \o OrEmpty(data.position)
  \o <<SP, "|", NL>>
  \o <<"|", SP, "INDUSTRY", SP, "|", SP>> \o OrEmpty(data.industry)
  \o <<SP, "|", NL>>
  \o <<"|", SP, "YEARS", SP, "|", SP>> \o OrEmpty(data.experience)
  \o <<"NEN", SP, "|", NL>>
  \o <<NL>>
  \o <<"##", SP, "SUMMARY", NL, NL>>
  \o OrEmpty(data.summary) \o <<NL, NL>>
  \o <<"##", SP, "SKILLS", NL, NL>>
  \o OrEmpty(data.skills) \o <<NL, NL>>
  \o <<"##", SP, "WORK_HISTORY", NL, NL>>
  \o <<"###", SP, "CURRENT_JOB", NL, NL>>
  \o <<"**">> \o OrEmpty(data.currentJob.companyName) \o <<"**", SP, SP, NL>>
  \o (IF Falsy(data.currentJob.companyUrl) THEN <<>>
      ELSE <<"URL:", SP>> \o data.currentJob.companyUrl \o <<SP, SP, NL>>)
  \o <<NL>>
  \o <<"**PERIOD:**", SP>> \o formatDate(data.currentJob.startDate)
  \o <<SP, "~", SP, "PRESENT", SP, SP, NL>>
  \o <<"**POSITION:**", SP>> \o OrEmpty(data.currentJob.position)
  \o <<SP, SP, NL>>
  \o <<"**TITLE:**", SP>> \o OrEmpty(data.currentJob.title) \o <<SP, SP, NL>>
  \o <<NL>>
  \o <<"####", SP, "ACHIEVEMENTS", NL>>
  \o OrEmpty(data.currentJob.achievements) \o <<NL>>
  \o <<NL>>
  \o Join([i \in 1..Len(data.previousJobs) |->
             formatPreviousJob(data.previousJobs[i])], <<NL, NL>>)
  \o <<NL>>
  \o <<NL>>
  \o <<"##", SP, "EDUCATION", NL>>
  \o <<NL>>
  \o <<"###", SP, "FINAL_EDUCATION", NL>>
  \o <<"**">> \o OrEmpty(data.education.university) \o <<"**", SP>>
  \o OrEmpty(data.education.faculty) \o <<SP>>
  \o OrEmpty(data.education.department) \o <<SP, SP, NL>>
  \o formatDate(data.education.graduationDate) \o <<"GRADUATION", NL>>
  \o <<NL>>
  \o (IF educationHistories = <<>> THEN <<>>
      ELSE <<"###", SP, "OTHER_EDUCATION", NL, NL>> \o educationHistories)
  \o <<NL>>
  \o <<NL>>
  \o <<H2_DETAILS, NL>>
  \o <<NL>>
  \o (IF Falsy(data.description) THEN Placeholder ELSE data.description)

\* the nested parts of a record
Parts == {"currentJob", "education", "previousJobs", "educationHistories"}

\* The parts formatTemplateContent reads a property of without a test
\* (data.currentJob.companyName, data.previousJobs.map, data.education.university);
\* data.educationHistories is tested before it is mapped.
Dereferenced == {"currentJob", "previousJobs", "education"}

\* reading a property of undefined throws a TypeError
formatThrows(absent) == absent \cap Dereferenced # {}

(***************************************************************************)
(* Records                                                                 *)
(***************************************************************************)
EmptyFormData ==
  [id |-> <<>>, name |-> <<>>, industry |-> <<>>, position |-> <<>>,
   experience |-> <<>>, skills |-> <<>>, summary |-> <<>>,
   description |-> <<>>,
   education |-> [university |-> <<>>, faculty |-> <<>>, department |-> <<>>,
                  graduationDate |-> <<>>],
   currentJob |-> [companyName |-> <<>>, companyUrl |-> <<>>,
                   startDate |-> <<>>, position |-> <<>>, title |-> <<>>,
                   achievements |-> <<>>],
   previousJobs |-> <<>>, educationHistories |-> <<>>,
   created_at |-> <<>>, updated_at |-> <<>>, user_id |-> <<>>]

PlainJob ==
  [companyName |-> <<"c">>, companyUrl |-> <<"u">>,
   startDate |-> <<"2020", "-", "04">>, endDate |-> <<"2022", "-", "03">>,
   position |-> <<"p">>, title |-> <<>>, achievements |-> <<"a">>,
   isSameAsCurrentCompany |-> FALSE]

MarkerJob == [PlainJob EXCEPT !.companyUrl = <<>>,
                              !.achievements = <<H2_DETAILS>>]

PlainEdu ==
  [schoolName |-> <<"s">>, graduationDate |-> <<"2016", "-", "03">>,
   department |-> <<"d">>, faculty |-> <<"f">>, major |-> <<>>]

MarkerEdu == [PlainEdu EXCEPT !.faculty = <<>>,
                              !.major = <<H2_DETAILS, NL, NL, "b">>]

Alphabet == {H2_DETAILS, NL, SP, "a"}

TextSet(n) == UNION {[1..k -> Alphabet] : k \in 0..n}

SeqsUpTo(S, n) == UNION {[1..k -> S] : k \in 0..n}

UndefJob ==
  [companyName |-> Undef, companyUrl |-> Undef, startDate |-> Undef,
   endDate |-> Undef, position |-> Undef, title |-> Undef,
   achievements |-> Undef, isSameAsCurrentCompany |-> FALSE]

UndefEdu ==
  [schoolName |-> Undef, graduationDate |-> Undef, department |-> Undef,
   faculty |-> Undef, major |-> Undef]

\* a record whose scalar fields all hold v
ScalarsAre(v) ==
  [EmptyFormData EXCEPT
     !.name = v, !.industry = v, !.position = v, !.experience = v,
     !.skills = v, !.summary = v,
     !.education = [university |-> v, faculty |-> v, department |-> v,
                    graduationDate |-> v],
     !.currentJob = [companyName |-> v, companyUrl |-> v, startDate |-> v,
                     position |-> v, title |-> v, achievements |-> v]]

\* records with fields absent (Undef), empty or filled
FormatRecordSet ==
  {[ScalarsAre(v) EXCEPT !.description = d, !.previousJobs = pj,
                         !.educationHistories = eh] :
     v \in {Undef, <<>>, <<"a">>}, d \in {Undef} \cup TextSet(1),
     pj \in SeqsUpTo({PlainJob, UndefJob}, MaxJobs),
     eh \in SeqsUpTo({PlainEdu, UndefEdu}, MaxJobs)}

\* stored dates: well-formed ("2024-04"), absent, empty and malformed ones
DateTokens == {"2024", "04", "-", "/"}

DateSet == {Undef} \cup SeqsUpTo(DateTokens, MaxLen)

\* values of the fields other than the description
FieldSet == {<<>>, <<"a">>, <<H2_DETAILS>>, <<H2_DETAILS, NL, NL, "b">>}

RecordSet ==
  {[EmptyFormData EXCEPT !.description = d, !.summary = s,
                         !.currentJob.achievements = a,
                         !.currentJob.startDate = <<"2024", "-", "04">>,
                         !.previousJobs = pj, !.educationHistories = eh] :
     d \in TextSet(MaxDescLen), s \in FieldSet, a \in {<<>>, <<H2_DETAILS>>},
     pj \in SeqsUpTo({PlainJob, MarkerJob}, MaxJobs),
     eh \in SeqsUpTo({PlainEdu, MarkerEdu}, MaxJobs)}

(***************************************************************************)
(* Calls a handler makes, in the order it makes them                       *)
(***************************************************************************)
Call(fn) ==
  [fn |-> fn, text |-> <<>>, flag |-> FALSE, msg |-> "", data |-> EmptyFormData]

CallText(fn, t) == [Call(fn) EXCEPT !.text = t]
CallFlag(fn, b) == [Call(fn) EXCEPT !.flag = b]
CallMsg(fn, m) == [Call(fn) EXCEPT !.msg = m]
CallData(fn, d) == [Call(fn) EXCEPT !.data = d]

\* toast({title, description, variant}): flag is variant "destructive"
Toast(description, destructive) ==
  [Call("toast") EXCEPT !.msg = description, !.flag = destructive]

CallsOf(calls, fn) == {i \in 1..Len(calls) : calls[i].fn = fn}

\* the owning page's onEdit stores the description in the record
onEdit(q, description) ==
  [q EXCEPT !.formData.description = description, !.formDataNew = TRUE]

\* the owning page's onRegenerate: the document is recomputed from the record,
\* and the editing state is left as it is
onRegenerate(q) == [q EXCEPT !.formDataNew = TRUE]

\* one call applied to the state values waiting for the next render
Apply(q, c) ==
  CASE c.fn = "setEditorContent" -> [q EXCEPT !.editorContent = c.text]
    [] c.fn = "setInternalIsEditing" -> [q EXCEPT !.internalIsEditing = c.flag]
    [] c.fn = "setIsEditing" -> [q EXCEPT !.isEditing = c.flag]
    [] c.fn = "setIsLoading" -> [q EXCEPT !.isLoading = c.flag]
    [] c.fn = "setHasAttemptedFetch" -> [q EXCEPT !.hasAttemptedFetch = c.flag]
    [] c.fn = "setStep" -> [q EXCEPT !.step = 2]
    [] c.fn = "setFormData" -> [q EXCEPT !.formData = c.data, !.formDataNew = TRUE]
    [] c.fn = "onEdit" -> onEdit(q, c.text)
    [] c.fn = "onRegenerate" -> onRegenerate(q)
    [] OTHER -> q

RECURSIVE ApplyAll(_, _)
ApplyAll(q, calls) ==
  IF calls = <<>> THEN q ELSE ApplyAll(Apply(q, Head(calls)), Tail(calls))

TimersOf(calls) == {calls[i].msg : i \in CallsOf(calls, "setTimeout")}

(***************************************************************************)
(* ResumeEditor: effects and handlers                                      *)
(***************************************************************************)
syncEditingEffect(editing) == <<CallFlag("setInternalIsEditing", editing)>>

\* the effect leaving the displayed content as the surface reported it
contentEffectMd_keepsContent(data) == <<>>

contentEffectMd(data) ==
  <<CallText("setEditorContent", formatTemplateContent(data))>>

\* (formattedContent is bound to the value, so that it is computed once)
contentEffectHtml(data) ==
  CHOOSE calls \in
    {IF formattedContent # <<>> /\ trim(formattedContent) # <<>>
       THEN <<CallText("setEditorContent", formattedContent)>>
       ELSE <<>> : formattedContent \in {formatTemplateContent(data)}} : TRUE

mountEffectHtml(data) ==
  <<CallText("setEditorContent", formatTemplateContent(data))>>

\* the handler propagating whatever the editing flag
handleEditorChangeMd_ignoresFlag(content, editing) ==
  <<CallText("setEditorContent", content),
    CallText("onEdit", parseTemplateContent(content))>>

handleEditorChangeMd(content, editing) ==
  <<CallText("setEditorContent", content)>>
  \o (IF editing THEN <<CallText("onEdit", parseTemplateContent(content))>>
      ELSE <<>>)

handleEditorChangeHtml(content, shown, editing) ==
  IF content = <<>> THEN <<>>
  ELSE IF content = shown THEN <<>>
  ELSE <<CallText("setEditorContent", content)>>
       \o (IF editing
             THEN <<CallText("onEdit", parseTemplateContent(content))>>
             ELSE <<>>)

\* the key of the editor surface: React unmounts the instance and mounts a
\* new one, with the content prop of that render, when the key changes
surfaceKey(v, editing, data) ==
  IF v = "md" THEN <<"editor", editing>>
  ELSE <<"editor", editing, IF Falsy(data.id) THEN <<"new">> ELSE data.id>>

handleFinishEditing == <<CallFlag("setIsEditing", FALSE)>>

\* the handler leaving edit mode before it propagates the final content
handleFinishEdit_finishFirst(shown) ==
  <<Call("onFinishEditing")>> \o handleFinishEditing
  \o <<CallText("onEdit", parseTemplateContent(shown))>>

handleFinishEdit(shown) ==
  <<CallText("onEdit", parseTemplateContent(shown)), Call("onFinishEditing")>>
  \o handleFinishEditing

handleDirectEdit ==
  <<CallMsg("setTimeout", "directEdit"), CallFlag("pendingSaveRef", TRUE),
    Toast("edit mode switched", FALSE)>>


(***************************************************************************)
(* useDirectEditMode                                                       *)
(***************************************************************************)
NoId == <<>>
NoUser == "none"

isDirectEditMode(m) == m = "edit"

activateEffect(m, i) ==
  IF isDirectEditMode(m) /\ ~Falsy(i)
    THEN <<Call("setStep"), CallMsg("setTimeout", "activate")>>
    ELSE <<>>

\* fetchResumeData going on to the fetch without a user session
fetchResumeDataStart_noUserCheck(user, attempted, loading, m, i) ==
  IF attempted \/ loading THEN <<>>
  ELSE IF ~isDirectEditMode(m) \/ Falsy(i) THEN <<>>
  ELSE <<CallFlag("setIsLoading", TRUE), CallText("select", i)>>

\* fetchResumeData up to its await
fetchResumeDataStart(user, attempted, loading, m, i) ==
  IF attempted \/ loading THEN <<>>
  ELSE IF ~isDirectEditMode(m) \/ Falsy(i) THEN <<>>
  ELSE IF user = NoUser /\ m = "edit"
    THEN <<Toast("login required, preview only", FALSE)>>
  ELSE <<CallFlag("setIsLoading", TRUE), CallText("select", i)>>

\* a row of the resumes table; a column that is null reads Undef
FullRow ==
  [id |-> <<"r1">>, name |-> <<"n">>, industry |-> <<"i">>,
   position |-> <<"p">>, experience |-> <<"3">>, skills |-> <<"k">>,
   summary |-> <<"s">>, description |-> <<"d">>,
   current_job_is_object |-> TRUE,
   current_job |-> [companyName |-> <<"c">>, companyUrl |-> Undef,
                    startDate |-> <<"2024", "-", "04">>, position |-> <<"p">>,
                    title |-> Undef, achievements |-> <<"a">>,
                    education_is_object |-> TRUE,
                    education |-> [university |-> <<"v">>, faculty |-> Undef,
                                   department |-> <<"d">>,
                                   graduationDate |-> <<"2016", "-", "03">>]],
   previous_jobs_is_array |-> TRUE,
   previous_jobs |-> <<[PlainJob EXCEPT !.title = Undef]>>,
   created_at |-> <<"t0">>, updated_at |-> <<"t1">>, user_id |-> <<"u1">>]

SparseRow ==
  [FullRow EXCEPT !.name = Undef, !.industry = Undef, !.position = Undef,
                  !.experience = Undef, !.skills = Undef, !.summary = Undef,
                  !.description = Undef, !.current_job_is_object = FALSE,
                  !.previous_jobs_is_array = FALSE]

RowSet == {FullRow, SparseRow}

toWorkExperience(job) ==
  [companyName |-> OrEmpty(job.companyName),
   companyUrl |-> OrEmpty(job.companyUrl),
   startDate |-> OrEmpty(job.startDate), endDate |-> OrEmpty(job.endDate),
   position |-> OrEmpty(job.position), title |-> OrEmpty(job.title),
   achievements |-> OrEmpty(job.achievements),
   isSameAsCurrentCompany |-> job.isSameAsCurrentCompany]

\* the transformation keeping the scalar columns as they come
toFormData_noDefaults(data) ==
  [EmptyFormData EXCEPT !.id = data.id, !.name = data.name,
                        !.industry = data.industry,
                        !.position = data.position,
                        !.experience = data.experience,
                        !.skills = data.skills, !.summary = data.summary,
                        !.description = data.description,
                        !.created_at = data.created_at,
                        !.updated_at = data.updated_at,
                        !.user_id = data.user_id]

\* the transformation of a fetched row to FormData
toFormData(data) ==
  LET job == data.current_job
      hasJob == data.current_job_is_object
      hasEdu == hasJob /\ job.education_is_object
      FromJob(v) == IF hasJob THEN OrEmpty(v) ELSE <<>>
      FromEdu(v) == IF hasEdu THEN OrEmpty(v) ELSE <<>>
  IN
  [id |-> data.id, name |-> OrEmpty(data.name),
   industry |-> OrEmpty(data.industry), position |-> OrEmpty(data.position),
   experience |-> OrEmpty(data.experience), skills |-> OrEmpty(data.skills),
   summary |-> OrEmpty(data.summary),
   description |-> OrEmpty(data.description),
   education |-> [university |-> FromEdu(job.education.university),
                  faculty |-> FromEdu(job.education.faculty),
                  department |-> FromEdu(job.education.department),
                  graduationDate |-> FromEdu(job.education.graduationDate)],
   currentJob |-> [companyName |-> FromJob(job.companyName),
                   companyUrl |-> FromJob(job.companyUrl),
                   startDate |-> FromJob(job.startDate),
                   position |-> FromJob(job.position),
                   title |-> FromJob(job.title),
                   achievements |-> FromJob(job.achievements)],
   previousJobs |-> IF data.previous_jobs_is_array
                      THEN [i \in 1..Len(data.previous_jobs) |->
                              toWorkExperience(data.previous_jobs[i])]
                      ELSE <<>>,
   educationHistories |-> <<>>,
   created_at |-> data.created_at, updated_at |-> data.updated_at,
   user_id |-> data.user_id]

Outcomes == {"ok", "error", "nodata", "throw"}

\* fetchResumeData without its check for a missing row
fetchResumeDataSettle_noDataCheck(outcome, data, m) ==
  IF outcome = "throw"
    THEN <<Toast("error while loading", TRUE),
           CallMsg("navigate", "/dashboard"), CallFlag("setIsLoading", FALSE)>>
  ELSE <<CallFlag("setHasAttemptedFetch", TRUE)>> \o
    (IF outcome = "error"
       THEN <<Toast("loading failed", TRUE),
              CallMsg("navigate", "/dashboard")>>
     ELSE <<CallData("setFormData", toFormData(data))>>
          \o (IF isDirectEditMode(m)
                THEN <<CallMsg("setTimeout", "reconfirm")>> ELSE <<>>)
          \o <<Toast("loading complete", FALSE)>>)
    \o <<CallFlag("setIsLoading", FALSE)>>

\* fetchResumeData from the point where its await settles
fetchResumeDataSettle(outcome, data, m) ==
  IF outcome = "throw"
    THEN <<Toast("error while loading", TRUE),
           CallMsg("navigate", "/dashboard"), CallFlag("setIsLoading", FALSE)>>
  ELSE <<CallFlag("setHasAttemptedFetch", TRUE)>> \o
    (IF outcome = "error"
       THEN <<Toast("loading failed", TRUE),
              CallMsg("navigate", "/dashboard")>>
     ELSE IF outcome = "nodata"
       THEN <<Toast("not found", TRUE),
              CallMsg("navigate", "/dashboard")>>
     ELSE <<CallData("setFormData", toFormData(data))>>
          \o (IF isDirectEditMode(m)
                THEN <<CallMsg("setTimeout", "reconfirm")>> ELSE <<>>)
          \o <<Toast("loading complete", FALSE)>>)
    \o <<CallFlag("setIsLoading", FALSE)>>

(***************************************************************************)
(* HtmlRichEditor: the effect that applies the value prop to the editor    *)
(***************************************************************************)
\* values the owner passes as the value prop
SurfaceValues == {<<>>, <<"x">>, <<"y">>, <<"<p>", "x">>}

\* editor.getHTML() after setContent(value): the editor library serialises
\* its document, which may or may not give back the string it was given
getHTML(value) == {value, <<"<p>">> \o value}

\* html is what editor.getHTML() returns; pending holds the value each
\* scheduled timer captured; applied is the outcome of the last setContent
NewSurface ==
  [value |-> <<>>, html |-> <<"<p>">>, isLoading |-> FALSE, pending |-> {},
   applied |-> "none", uncaught |-> FALSE, toast |-> FALSE, tick |-> 0]

\* the effect on [editor, actualValue, toast]; nothing in its try block throws
\* (setIsLoading and setTimeout do not), so its catch block never runs
contentSyncEffect(actualValue, html) ==
  IF Falsy(actualValue) THEN <<>>
  ELSE IF actualValue # html
    THEN <<CallFlag("setIsLoading", TRUE), CallText("setTimeout", actualValue)>>
    ELSE <<>>

\* the callback asking the editor to emit its update event
contentSyncCallback_emitUpdate(actualValue, outcome) ==
  IF outcome = "throws"
    THEN <<CallText("setContent", actualValue), Call("uncaught")>>
    ELSE <<[CallText("setContent", actualValue) EXCEPT !.flag = TRUE],
           CallFlag("setIsLoading", FALSE)>>

\* the callback given to setTimeout; it runs after the effect has returned, so
\* an exception of setContent is outside the effect's try block
contentSyncCallback(actualValue, outcome) ==
  IF outcome = "throws"
    THEN <<CallText("setContent", actualValue), Call("uncaught")>>
    ELSE <<CallText("setContent", actualValue), CallFlag("setIsLoading", FALSE)>>

ApplySurface(s, c) ==
  CASE c.fn = "setIsLoading" -> [s EXCEPT !.isLoading = c.flag]
    [] c.fn = "setTimeout" -> [s EXCEPT !.pending = @ \cup {c.text}]
    [] c.fn = "uncaught" -> [s EXCEPT !.uncaught = TRUE]
    [] c.fn = "toast" -> [s EXCEPT !.toast = TRUE]
    [] OTHER -> s

RECURSIVE ApplySurfaceAll(_, _)
ApplySurfaceAll(s, calls) ==
  IF calls = <<>> THEN s
  ELSE ApplySurfaceAll(ApplySurface(s, Head(calls)), Tail(calls))

(***************************************************************************)
(* State machine                                                           *)
(***************************************************************************)
vars ==
  <<fx, variant, mode, id, formData, isEditing, step, editorContent,
    internalIsEditing, isLoading, hasAttemptedFetch, queued, effectsRun,
    timers, pendingSaveRef, requests, fetchCount, populateCount, fetchFailed,
    navigated, mounted, surface, last>>

route == <<variant, mode, id>>
fetchHistory == <<requests, fetchCount, populateCount, fetchFailed>>
rendered ==
  <<formData, isEditing, step, editorContent, internalIsEditing, isLoading,
    hasAttemptedFetch, effectsRun>>

SampleRecord ==
  [EmptyFormData EXCEPT !.name = <<"n">>, !.description = <<"d">>,
                        !.previousJobs = <<PlainJob>>,
                        !.educationHistories = <<PlainEdu>>]

InitialRecords == {EmptyFormData, SampleRecord}

\* contents the editor surface reports
ContentSet == {<<>>, <<SP, "x">>, <<"t", NL, H2_DETAILS, NL, NL, "y", SP>>}

Idle ==
  [fn |-> "idle", rec |-> EmptyFormData, absent |-> {}, text |-> <<>>,
   out |-> <<>>, thrown |-> FALSE]

\* row is the row the last settled fetch returned; finished tells that
\* handleFinishEdit was invoked and handleDirectEdit has not been since
NoOp ==
  [op |-> "none", arg |-> <<>>, outcome |-> "", calls |-> <<>>, tick |-> 0,
   row |-> FullRow, finished |-> FALSE]

Invocation(op, arg, outcome, calls) ==
  [op |-> op, arg |-> arg, outcome |-> outcome, calls |-> calls,
   tick |-> 1 - last.tick, row |-> last.row,
   finished |-> IF op = "handleFinishEdit" THEN TRUE
                ELSE IF op = "handleDirectEdit" THEN FALSE
                ELSE last.finished]

Queue(data, editing) ==
  [formData |-> data, formDataNew |-> FALSE, isEditing |-> editing, step |-> 1,
   editorContent |-> <<>>, internalIsEditing |-> editing, isLoading |-> FALSE,
   hasAttemptedFetch |-> FALSE]

Init ==
  /\ fx = Idle
  /\ variant \in {"md", "html"}
  /\ mode \in {"edit", "view"}
  /\ id \in {NoId, <<"r1">>}
  /\ formData \in InitialRecords
  /\ isEditing = FALSE
  /\ step = 1
  /\ editorContent = <<>>
  /\ internalIsEditing = isEditing
  /\ isLoading = FALSE
  /\ hasAttemptedFetch = FALSE
  /\ queued = Queue(formData, isEditing)
  /\ effectsRun = FALSE
  /\ timers = {}
  /\ pendingSaveRef = FALSE
  /\ requests = 0
  /\ fetchCount = 0
  /\ populateCount = 0
  /\ fetchFailed = FALSE
  /\ navigated = FALSE
  /\ mounted = TRUE
  /\ surface = NewSurface
  /\ last = NoOp

\* the calls of the effects that run after a render
EffectCalls(first) ==
  LET editingChanged == first \/ queued.isEditing # isEditing
      dataChanged == first \/ queued.formDataNew
      internalChanged == first \/ queued.internalIsEditing # internalIsEditing
  IN
  (IF editingChanged THEN syncEditingEffect(queued.isEditing) ELSE <<>>)
  \o (IF variant = "md"
        THEN (IF dataChanged \/ editingChanged \/ internalChanged
                THEN contentEffectMd(queued.formData) ELSE <<>>)
        ELSE (IF dataChanged \/ editingChanged
                THEN contentEffectHtml(queued.formData) ELSE <<>>)
             \o (IF first THEN mountEffectHtml(queued.formData) ELSE <<>>))
  \o (IF first THEN activateEffect(mode, id) ELSE <<>>)

Dirty ==
  \/ ~effectsRun
  \/ queued.formDataNew
  \/ <<queued.formData, queued.isEditing, queued.step, queued.editorContent,
       queued.internalIsEditing, queued.isLoading, queued.hasAttemptedFetch>>
     # <<formData, isEditing, step, editorContent, internalIsEditing,
         isLoading, hasAttemptedFetch>>

\* React renders with the queued state and then runs the effects whose
\* dependencies changed
RenderPage ==
  /\ mounted
  /\ Dirty
  /\ \E calls \in {EffectCalls(~effectsRun)} :
     /\ formData' = queued.formData
     /\ isEditing' = queued.isEditing
     /\ step' = queued.step
     /\ editorContent' = queued.editorContent
     /\ internalIsEditing' = queued.internalIsEditing
     /\ isLoading' = queued.isLoading
     /\ hasAttemptedFetch' = queued.hasAttemptedFetch
     /\ effectsRun' = TRUE
     /\ queued' = ApplyAll([queued EXCEPT !.formDataNew = FALSE], calls)
     /\ timers' = timers \cup TimersOf(calls)
  /\ UNCHANGED <<fx, route, pendingSaveRef, fetchHistory, navigated, mounted,
                 last>>

\* (the surface is followed only where a specification couples it to the page)
Render == RenderPage /\ UNCHANGED surface

\* The handlers below belong to what the first render put on the page, so
\* they run only once the page has rendered (effectsRun).

\* the editor surface reports a content change (onChange of the surface; the
\* HtmlRichEditor is rendered only while editorContent is not empty)
EditorChange(content) ==
  /\ mounted /\ effectsRun
  /\ variant = "html" => editorContent # <<>>
  /\ LET calls == IF variant = "md"
                    THEN handleEditorChangeMd(content, internalIsEditing)
                    ELSE handleEditorChangeHtml(content, editorContent,
                                                internalIsEditing)
     IN /\ queued' = ApplyAll(queued, calls)
        /\ last' = Invocation("handleEditorChange", content, "", calls)
  /\ UNCHANGED <<fx, surface, route, rendered, timers, pendingSaveRef, fetchHistory,
                 navigated, mounted>>

\* the toggle button while it reads "finish editing"
FinishEdit ==
  /\ mounted /\ effectsRun
  /\ internalIsEditing
  /\ LET calls == handleFinishEdit(editorContent) IN
     /\ queued' = ApplyAll(queued, calls)
     /\ last' = Invocation("handleFinishEdit", editorContent, "", calls)
  /\ UNCHANGED <<fx, surface, route, rendered, timers, pendingSaveRef, fetchHistory,
                 navigated, mounted>>

\* the toggle button while it reads "edit directly"
DirectEdit ==
  /\ mounted /\ effectsRun
  /\ ~internalIsEditing
  /\ LET calls == handleDirectEdit IN
     /\ timers' = timers \cup TimersOf(calls)
     /\ pendingSaveRef' = TRUE
     /\ last' = Invocation("handleDirectEdit", <<>>, "", calls)
  /\ UNCHANGED <<fx, surface, route, rendered, queued, fetchHistory, navigated,
                 mounted>>

\* the regenerate button, rendered whatever the editing state
Regenerate ==
  /\ mounted /\ effectsRun
  /\ LET calls == <<Call("onRegenerate")>> IN
     /\ queued' = ApplyAll(queued, calls)
     /\ last' = Invocation("onRegenerate", <<>>, "", calls)
  /\ UNCHANGED <<fx, surface, route, rendered, timers, pendingSaveRef, fetchHistory,
                 navigated, mounted>>

\* every timer of the program runs setIsEditing(true)
timerCallback(t) == <<CallFlag("setIsEditing", TRUE)>>

TimerFires(t) ==
  /\ t \in timers
  /\ timers' = timers \ {t}
  /\ queued' = IF mounted THEN ApplyAll(queued, timerCallback(t)) ELSE queued
  /\ UNCHANGED <<fx, surface, route, rendered, pendingSaveRef, fetchHistory, navigated,
                 mounted, last>>

\* the page invokes fetchResumeData(user)
FetchResumeData(user) ==
  /\ mounted /\ effectsRun
  /\ LET calls == fetchResumeDataStart(user, hasAttemptedFetch, isLoading,
                                       mode, id)
         n == Cardinality(CallsOf(calls, "select"))
     IN /\ fetchCount + n <= MaxFetch
        /\ requests' = requests + n
        /\ fetchCount' = fetchCount + n
        /\ queued' = ApplyAll(queued, calls)
        /\ last' = Invocation("fetchResumeData", <<>>, user, calls)
  /\ UNCHANGED <<fx, surface, route, rendered, timers, pendingSaveRef, populateCount,
                 fetchFailed, navigated, mounted>>

\* the await of a fetch in flight settles and fetchResumeData runs to its end
FetchSettles(outcome, data) ==
  /\ requests > 0
  /\ requests' = requests - 1
  /\ LET calls == fetchResumeDataSettle(outcome, data, mode) IN
     /\ queued' = IF mounted THEN ApplyAll(queued, calls) ELSE queued
     /\ timers' = timers \cup TimersOf(calls)
     /\ navigated' = (navigated \/ CallsOf(calls, "navigate") # {})
     /\ populateCount' =
          populateCount + Cardinality(CallsOf(calls, "setFormData"))
     /\ last' = [Invocation("fetchResumeData.settle", <<>>, outcome, calls)
                   EXCEPT !.row = IF outcome = "ok" THEN data ELSE last.row]
  /\ fetchFailed' = (fetchFailed \/ outcome # "ok")
  /\ UNCHANGED <<fx, surface, route, rendered, pendingSaveRef, fetchCount, mounted>>

\* the router leaves the page after navigate("/dashboard")
RouteCommit ==
  /\ navigated
  /\ mounted
  /\ mounted' = FALSE
  /\ UNCHANGED <<fx, surface, route, rendered, queued, timers, pendingSaveRef,
                 fetchHistory, navigated, last>>

\* the user leaves the page while it is mounted
NavigateAway ==
  /\ mounted
  /\ ~navigated
  /\ mounted' = FALSE
  /\ UNCHANGED <<fx, surface, route, rendered, queued, timers, pendingSaveRef,
                 fetchHistory, navigated, last>>

\* The editor, opened on a record of the form (no direct-edit route)
InitEditor ==
  /\ Init
  /\ mode = "view"
  /\ id = NoId

Next ==
  \/ Render
  \/ \E content \in ContentSet : EditorChange(content)
  \/ FinishEdit
  \/ DirectEdit
  \/ Regenerate
  \/ TimerFires("directEdit")

Spec == InitEditor /\ [][Next]_vars

\* The page opened on a route, with the direct-edit hook fetching the record
InitDirect ==
  /\ Init
  /\ variant = "html"
  /\ formData = EmptyFormData

NextDirect ==
  \/ Render
  \/ \E user \in {NoUser, "u1"} : FetchResumeData(user)
  \/ \E outcome \in Outcomes :
       \E data \in (IF outcome = "ok" THEN RowSet ELSE {FullRow}) :
         FetchSettles(outcome, data)
  \/ \E t \in {"activate", "reconfirm"} : TimerFires(t)
  \/ FinishEdit
  \/ RouteCommit
  \/ NavigateAway

SpecDirect == InitDirect /\ [][NextDirect]_vars

\* The same page left to itself: no button is pressed and the user stays on
\* the page.  React renders what was set and the browser runs every timer.
NextAuto ==
  \/ Render
  \/ \E user \in {NoUser, "u1"} : FetchResumeData(user)
  \/ \E outcome \in Outcomes :
       \E data \in (IF outcome = "ok" THEN RowSet ELSE {FullRow}) :
         FetchSettles(outcome, data)
  \/ \E t \in {"activate", "reconfirm"} : TimerFires(t)
  \/ RouteCommit

SpecAuto ==
  /\ InitDirect
  /\ [][NextAuto]_vars
  /\ WF_vars(Render)
  /\ WF_vars(TimerFires("activate"))
  /\ WF_vars(TimerFires("reconfirm"))

(***************************************************************************)
(* The formatter and the parser applied to bounded inputs                  *)
(***************************************************************************)
app ==
  <<variant, mode, id, formData, isEditing, step, editorContent,
    internalIsEditing, isLoading, hasAttemptedFetch, queued, effectsRun,
    timers, pendingSaveRef, requests, fetchCount, populateCount, fetchFailed,
    navigated, mounted, surface, last>>

InitFmt ==
  /\ Init
  /\ variant = "md"
  /\ mode = "view"
  /\ id = NoId
  /\ formData = EmptyFormData

ApplyParse(content) ==
  /\ fx = Idle
  /\ fx' = [Idle EXCEPT !.fn = "parse", !.text = content,
                        !.out = parseTemplateContent(content)]
  /\ UNCHANGED app

ApplyFormatParse(data) ==
  /\ fx = Idle
  /\ fx' = [Idle EXCEPT !.fn = "format_parse", !.rec = data,
                        !.text = formatTemplateContent(data),
                        !.out = parseTemplateContent(
                                  formatTemplateContent(data))]
  /\ UNCHANGED app

\* formatTemplateContent(data) with the nested parts in absent left out of
\* data; an absent additional-education list reads as no entries
ApplyFormat(data, absent) ==
  /\ fx = Idle
  /\ "educationHistories" \in absent => data.educationHistories = <<>>
  /\ "previousJobs" \in absent => data.previousJobs = <<>>
  /\ fx' = [Idle EXCEPT !.fn = "format", !.rec = data, !.absent = absent,
                        !.thrown = formatThrows(absent),
                        !.out = IF formatThrows(absent) THEN <<>>
                                ELSE formatTemplateContent(data)]
  /\ UNCHANGED app

ApplyFormatDate(date) ==
  /\ fx = Idle
  /\ fx' = [Idle EXCEPT !.fn = "formatDate", !.text = date,
                        !.out = formatDate(date)]
  /\ UNCHANGED app

\* the inputs of a run: one application per run, none after it
Inputs(S) == IF fx = Idle THEN S ELSE {}

NextFmt ==
  \/ \E content \in Inputs(TextSet(MaxLen)) : ApplyParse(content)
  \/ \E data \in Inputs(RecordSet) : ApplyFormatParse(data)
  \/ \E data \in Inputs(FormatRecordSet) : \E absent \in SUBSET Parts :
       ApplyFormat(data, absent)
  \/ \E date \in Inputs(DateSet) : ApplyFormatDate(date)

SpecFmt == InitFmt /\ [][NextFmt]_vars

(***************************************************************************)
(* The HtmlRichEditor given values by its owner                            *)
(***************************************************************************)
owner ==
  <<fx, variant, mode, id, formData, isEditing, step, editorContent,
    internalIsEditing, isLoading, hasAttemptedFetch, queued, effectsRun,
    timers, pendingSaveRef, requests, fetchCount, populateCount, fetchFailed,
    navigated, mounted, last>>

\* the owner renders the surface with a new value prop and the effect runs
SurfaceValue(v) ==
  /\ v # surface.value
  /\ \E calls \in {contentSyncEffect(v, surface.html)} :
       surface' = ApplySurfaceAll([surface EXCEPT !.value = v], calls)
  /\ UNCHANGED owner

\* a timer of the effect runs its callback
SurfaceTimerFires(v, outcome) ==
  /\ v \in surface.pending
  /\ \E calls \in {contentSyncCallback(v, outcome)} :
     \E html \in (IF outcome = "ok" THEN getHTML(v) ELSE {surface.html}) :
       surface' = [ApplySurfaceAll([surface EXCEPT !.pending = @ \ {v}], calls)
                     EXCEPT !.html = html, !.applied = outcome,
                            !.tick = 1 - surface.tick]
  /\ UNCHANGED owner

\* the user edits the document (onUpdate passes getHTML() to onChange)
SurfaceUpdate(html) ==
  /\ html # surface.html
  /\ surface' = [surface EXCEPT !.html = html]
  /\ UNCHANGED owner

NextSurface ==
  \/ \E v \in SurfaceValues : SurfaceValue(v)
  \/ \E v \in SurfaceValues : \E outcome \in {"ok", "throws"} :
       SurfaceTimerFires(v, outcome)
  \/ \E html \in {<<"<p>", "x">>, <<"<p>", "e">>} : SurfaceUpdate(html)

InitSurface ==
  /\ Init
  /\ variant = "html"
  /\ mode = "view"
  /\ id = NoId
  /\ formData = EmptyFormData

SpecSurface == InitSurface /\ [][NextSurface]_vars

(***************************************************************************)
(* The ResumeEditor of part_000 together with its HtmlRichEditor           *)
(***************************************************************************)
\* what the user can turn the document into (getHTML() gives HTML, which is
\* never a formatted document: that starts with the title line)
UserHtml ==
  {<<"<p>">>, <<"<p>", "e">>, <<"<p>", "t", NL, H2_DETAILS, NL, NL, "y">>}

\* getHTML() of an editor whose document is empty (editor.isEmpty)
EmptyHtml == <<"<p>">>

\* the effect on [editor, actualValue] that fills an empty editor at once:
\* what getHTML() returns after it
initialContentEffect(actualValue, html) ==
  IF ~Falsy(actualValue) /\ html = EmptyHtml THEN getHTML(actualValue)
  ELSE {html}

\* nothing is left to render and no timer is pending
Quiescent == mounted /\ effectsRun /\ ~Dirty /\ timers = {} /\ surface.pending = {}

\* the effects of the surface that depend on actualValue, in the order they
\* are declared; html is what getHTML() returns after the first of them
SurfaceEffects(s, content, html) ==
  ApplySurfaceAll([s EXCEPT !.value = content, !.html = html],
                  contentSyncEffect(content, html))

\* the render of the page renders the surface: none while editorContent is
\* empty, a new instance when it first appears or its key changes (timers of
\* the instance torn down act on a destroyed editor and are not followed;
\* useEditor gets actualValue as the content of the new editor), otherwise
\* the same instance, whose effects run when the value prop changed
RenderSurface ==
  /\ RenderPage
  /\ \E content \in {queued.editorContent} :
     \E key \in {surfaceKey(variant, queued.internalIsEditing, queued.formData)} :
       IF content = <<>> THEN surface' = NewSurface
       ELSE IF editorContent = <<>>
               \/ key # surfaceKey(variant, internalIsEditing, formData)
         THEN \E html \in getHTML(content) :
              \E filled \in initialContentEffect(content, html) :
                surface' = SurfaceEffects(NewSurface, content, filled)
       ELSE IF content # surface.value
         THEN \E filled \in initialContentEffect(content, surface.html) :
                surface' = SurfaceEffects(surface, content, filled)
       ELSE surface' = surface

\* the user edits the document of the editable surface: onUpdate passes
\* getHTML() to onChange, which is handleEditorChange.  The user acts on a
\* page that has settled.
UserEdit(html) ==
  /\ Quiescent
  /\ internalIsEditing /\ editorContent # <<>>
  /\ html # surface.html
  /\ surface' = [surface EXCEPT !.html = html]
  /\ \E calls \in {handleEditorChangeHtml(html, editorContent,
                                           internalIsEditing)} :
       /\ queued' = ApplyAll(queued, calls)
       /\ last' = Invocation("handleEditorChange", html, "user", calls)
  /\ UNCHANGED <<fx, route, rendered, timers, pendingSaveRef, fetchHistory,
                 navigated, mounted>>

\* a timer of the content-sync effect runs: setContent(actualValue) with no
\* second argument.  The editor emits its update event, and so calls
\* onUpdate, only when setContent is given emitUpdate = true (the default of
\* the editor library imported by part_001 is false).
SetContentRuns(v, outcome) ==
  /\ v \in surface.pending
  /\ \E calls \in {contentSyncCallback(v, outcome)} :
     \E html \in (IF outcome = "ok" THEN getHTML(v) ELSE {surface.html}) :
     \E change \in
        {IF outcome = "ok"
              /\ \E i \in CallsOf(calls, "setContent") : calls[i].flag
           THEN <<handleEditorChangeHtml(html, editorContent,
                                         internalIsEditing)>>
           ELSE <<>>} :
       /\ surface' =
            [ApplySurfaceAll([surface EXCEPT !.pending = @ \ {v}], calls)
               EXCEPT !.html = html, !.applied = outcome,
                      !.tick = 1 - surface.tick]
       /\ queued' = IF change = <<>> THEN queued
                    ELSE ApplyAll(queued, change[1])
       /\ last' = IF change = <<>> THEN last
                  ELSE Invocation("handleEditorChange", html, "setContent",
                                  change[1])
  /\ UNCHANGED <<fx, route, rendered, timers, pendingSaveRef, fetchHistory,
                 navigated, mounted>>

\* the browser runs a pending timer of the surface
SetContentTimer ==
  \E v \in surface.pending : \E outcome \in {"ok", "throws"} :
    SetContentRuns(v, outcome)

\* the two states of the toggle button, pressed on a settled page
BridgeDirectEdit == Quiescent /\ DirectEdit
BridgeFinishEdit == Quiescent /\ FinishEdit

InitBridge ==
  /\ InitEditor
  /\ variant = "html"

NextBridge ==
  \/ RenderSurface
  \/ \E html \in UserHtml : UserEdit(html)
  \/ SetContentTimer
  \/ BridgeDirectEdit
  \/ BridgeFinishEdit
  \/ TimerFires("directEdit")

\* React renders what was set and the browser runs every timer
SpecBridge ==
  /\ InitBridge
  /\ [][NextBridge]_vars
  /\ WF_vars(RenderSurface)
  /\ WF_vars(TimerFires("directEdit"))
  /\ WF_vars(SetContentTimer)

(***************************************************************************)
(* Properties                                                              *)
(***************************************************************************)
\* this step is an invocation of the handler op
Invoked(op) == last'.tick # last.tick /\ last'.op = op

OnEditCalls(calls) == CallsOf(calls, "onEdit")

\* C1: for every record with a non-empty description d, whatever the other
\* fields hold, parsing the formatted record gives d trimmed.
C1_RoundTrip ==
  (fx.fn = "format_parse" /\ fx.rec.description # <<>>)
    => fx.out = trim(fx.rec.description)

\* C5: an input without the details marker is returned trimmed of leading
\* and trailing whitespace.
C5_ParserFallback ==
  (fx.fn = "parse" /\ ~HasMarker(fx.text)) => fx.out = trim(fx.text)

\* C2: the editing flag goes from true to false only in handleFinishEdit, and
\* handleFinishEdit calls onEdit with the parse of the displayed content
\* before it calls onFinishEditing and before the flag is set to false.
C2_FlushBeforeFinish ==
  [][(Invoked("handleFinishEdit") \/ (queued.isEditing /\ ~queued'.isEditing))
       => /\ last'.op = "handleFinishEdit"
          /\ Len(last'.calls) = 3
          /\ last'.calls[1] =
               CallText("onEdit", parseTemplateContent(editorContent))
          /\ last'.calls[2] = Call("onFinishEditing")
          /\ last'.calls[3] = CallFlag("setIsEditing", FALSE)
          /\ queued'.formData.description = parseTemplateContent(editorContent)
          /\ ~queued'.isEditing]_vars

C2_Witness ==
  /\ last.op = "handleFinishEdit"
  /\ HasMarker(last.arg)
  /\ last.arg # formatTemplateContent(formData)
  /\ queued.formData.description = <<"y">>
  /\ ~queued.isEditing

\* C3: two handleEditorChange invocations in a row with the same content
\* make at most one onEdit call in total.
C3_Suppression ==
  [][(last.op = "handleEditorChange" /\ Invoked("handleEditorChange")
        /\ last'.arg = last.arg)
       => Cardinality(OnEditCalls(last.calls))
            + Cardinality(OnEditCalls(last'.calls)) <= 1]_vars

\* C6: handleEditorChange with the empty string leaves editorContent as it
\* was and calls no onEdit.
C6_EmptyChangeIsNoOp ==
  [][(Invoked("handleEditorChange") /\ last'.arg = <<>>)
       => /\ queued'.editorContent = queued.editorContent
          /\ OnEditCalls(last'.calls) = {}]_vars

\* C7: a surface change with new non-empty content sets editorContent; with
\* the editing flag false it calls no onEdit and leaves the record alone, with
\* the flag true it calls onEdit once, with the parse of the new content.
C7_PropagationOnlyWhileEditing ==
  [][(Invoked("handleEditorChange") /\ last'.arg # <<>>
        /\ last'.arg # editorContent)
       => /\ queued'.editorContent = last'.arg
          /\ IF internalIsEditing
               THEN /\ Cardinality(OnEditCalls(last'.calls)) = 1
                    /\ \A i \in OnEditCalls(last'.calls) :
                         last'.calls[i].text = parseTemplateContent(last'.arg)
                    /\ queued'.formData.description =
                         parseTemplateContent(last'.arg)
               ELSE /\ OnEditCalls(last'.calls) = {}
                    /\ queued'.formData = queued.formData
                    /\ queued'.formDataNew = queued.formDataNew]_vars

C7_Witness ==
  /\ last.op = "handleEditorChange"
  /\ last.arg = <<"t", NL, H2_DETAILS, NL, NL, "y", SP>>
  /\ ~internalIsEditing
  /\ queued.editorContent = last.arg
  /\ queued.formData.description # <<"y">>
  /\ OnEditCalls(last.calls) = {}

\* the page and the editor both hold the editing flag true, nothing pending
Editing ==
  /\ isEditing /\ internalIsEditing
  /\ queued.isEditing /\ queued.internalIsEditing

\* C8: regenerate is never fired in Editing state, and firing it leaves the
\* editing flags as they were.
C8_RegenerateOnlyWhenGenerated ==
  [][Invoked("onRegenerate")
       => /\ ~Editing
          /\ queued'.isEditing = queued.isEditing
          /\ queued'.internalIsEditing = queued.internalIsEditing]_vars

FailureOutcomes == {"error", "nodata", "throw"}

\* C4: in direct-edit mode with an id, at most one fetch request is issued
\* and the record is populated at most once.
C4_AtMostOneFetch ==
  (isDirectEditMode(mode) /\ id # NoId)
    => (fetchCount <= 1 /\ populateCount <= 1)

\* C9: when the fetch ends in an error, no data or an exception, the record
\* is not populated, a destructive toast is shown and navigate("/dashboard")
\* is called.
C9_FetchFailureAborts ==
  [][(Invoked("fetchResumeData.settle") /\ last'.outcome \in FailureOutcomes)
       => /\ CallsOf(last'.calls, "setFormData") = {}
          /\ queued'.formData = queued.formData
          /\ queued'.formDataNew = queued.formDataNew
          /\ populateCount' = populateCount
          /\ \E i \in CallsOf(last'.calls, "toast") : last'.calls[i].flag
          /\ \E i \in CallsOf(last'.calls, "navigate") :
               last'.calls[i].msg = "/dashboard"
          /\ navigated']_vars

C9_Witness ==
  /\ last.op = "fetchResumeData.settle"
  /\ last.outcome = "nodata"
  /\ navigated
  /\ populateCount = 0
  /\ queued.formData = EmptyFormData

\* C10: once a fetch has ended in failure, no further fetch request is
\* issued.
C10_NoRetryAfterFailure ==
  [][fetchFailed => fetchCount' = fetchCount]_vars

LoginRequired == Toast("login required, preview only", FALSE)

\* the invocation of fetchResumeData without a user session, no fetch issued
NoUserEntry ==
  /\ isDirectEditMode(mode) /\ id # NoId
  /\ last.op = "fetchResumeData" /\ last.outcome = NoUser
  /\ fetchCount = 0

\* C11: in direct-edit mode with an id, fetchResumeData without a user
\* session shows the login-required toast, issues no fetch, does not navigate
\* and leaves the record alone; the editing flag still becomes true.
C11_UnauthenticatedEntry ==
  /\ [][(Invoked("fetchResumeData") /\ last'.outcome = NoUser
          /\ isDirectEditMode(mode) /\ id # NoId /\ fetchCount = 0)
         => /\ last'.calls = <<LoginRequired>>
            /\ requests' = requests /\ fetchCount' = fetchCount
            /\ navigated' = navigated
            /\ queued' = queued
            /\ timers' = timers]_vars
  /\ NoUserEntry ~> (Editing \/ fetchCount > 0)

C11_Witness ==
  /\ NoUserEntry
  /\ last.calls = <<LoginRequired>>
  /\ Editing
  /\ ~navigated
  /\ formData = EmptyFormData
  /\ step = 2

\* C12: a fetch that settles after the page was unmounted applies nothing:
\* it calls no setFormData and sets up no setIsEditing.
C12_LateResponseIgnored ==
  [][(Invoked("fetchResumeData.settle") /\ ~mounted)
       => /\ CallsOf(last'.calls, "setFormData") = {}
          /\ CallsOf(last'.calls, "setTimeout") = {}
          /\ populateCount' = populateCount
          /\ timers' = timers]_vars

\* the record a row stands for: what the row holds, "" where it holds nothing
ExpectedFull ==
  [id |-> <<"r1">>, name |-> <<"n">>, industry |-> <<"i">>,
   position |-> <<"p">>, experience |-> <<"3">>, skills |-> <<"k">>,
   summary |-> <<"s">>, description |-> <<"d">>,
   education |-> [university |-> <<"v">>, faculty |-> <<>>,
                  department |-> <<"d">>,
                  graduationDate |-> <<"2016", "-", "03">>],
   currentJob |-> [companyName |-> <<"c">>, companyUrl |-> <<>>,
                   startDate |-> <<"2024", "-", "04">>, position |-> <<"p">>,
                   title |-> <<>>, achievements |-> <<"a">>],
   previousJobs |->
     <<[companyName |-> <<"c">>, companyUrl |-> <<"u">>,
        startDate |-> <<"2020", "-", "04">>,
        endDate |-> <<"2022", "-", "03">>, position |-> <<"p">>,
        title |-> <<>>, achievements |-> <<"a">>,
        isSameAsCurrentCompany |-> FALSE]>>,
   educationHistories |-> <<>>,
   created_at |-> <<"t0">>, updated_at |-> <<"t1">>, user_id |-> <<"u1">>]

ExpectedSparse ==
  [id |-> <<"r1">>, name |-> <<>>, industry |-> <<>>, position |-> <<>>,
   experience |-> <<>>, skills |-> <<>>, summary |-> <<>>,
   description |-> <<>>,
   education |-> [university |-> <<>>, faculty |-> <<>>, department |-> <<>>,
                  graduationDate |-> <<>>],
   currentJob |-> [companyName |-> <<>>, companyUrl |-> <<>>,
                   startDate |-> <<>>, position |-> <<>>, title |-> <<>>,
                   achievements |-> <<>>],
   previousJobs |-> <<>>, educationHistories |-> <<>>,
   created_at |-> <<"t0">>, updated_at |-> <<"t1">>, user_id |-> <<"u1">>]

ExpectedRecord(row) == IF row = FullRow THEN ExpectedFull ELSE ExpectedSparse

\* a fetch has populated the record, none is in flight, the page is shown
FetchSucceeded ==
  /\ isDirectEditMode(mode) /\ id # NoId
  /\ populateCount >= 1 /\ requests = 0 /\ mounted

\* C13: in direct-edit mode with an id, a fetch that succeeds stores the
\* fetched row with every absent field defaulted to "", and with no button
\* pressed the page comes to rest with step 2, that record and the editing
\* flag true.
C13_DirectEditSuccess ==
  /\ [][(Invoked("fetchResumeData.settle") /\ last'.outcome = "ok" /\ mounted)
         => queued'.formData = ExpectedRecord(last'.row)]_vars
  /\ <>[](FetchSucceeded
            => /\ step = 2
               /\ formData = ExpectedRecord(last.row)
               /\ Editing)

C13_Witness ==
  /\ FetchSucceeded
  /\ last.op = "fetchResumeData.settle" /\ last.outcome = "ok"
  /\ last.row = SparseRow
  /\ step = 2
  /\ formData = ExpectedSparse
  /\ Editing
  /\ ~Dirty /\ timers = {}

\* C14: when setContent fails in the content-sync effect of the surface, the
\* failure is caught (nothing escapes), the "could not update" toast is shown
\* and isLoading is false again.
C14_SetContentFailureContained ==
  [][(surface'.tick # surface.tick /\ surface'.applied = "throws")
       => /\ ~surface'.uncaught
          /\ surface'.toast
          /\ ~surface'.isLoading]_vars

\* C15: formatTemplateContent and parseTemplateContent never throw, whatever
\* the input: empty text, text without headers, a record with empty fields,
\* a record with nested parts or fields absent.
C15_Totality ==
  fx.fn \in {"format", "parse", "format_parse"} => ~fx.thrown

Tokens(s) == {s[i] : i \in 1..Len(s)}

IsInfix(p, s) ==
  \E i \in 1..(Len(s) - Len(p) + 1) : SubSeq(s, i, i + Len(p) - 1) = p

IsSuffix(p, s) ==
  Len(p) <= Len(s) /\ SubSeq(s, Len(s) - Len(p) + 1, Len(s)) = p

\* the titles of the sections and table rows every document carries
FixedSections ==
  {"RESUME_TITLE", "BASIC_INFO", "NAME", "TARGET_POSITION", "INDUSTRY",
   "YEARS", "SUMMARY", "SKILLS", "WORK_HISTORY", "CURRENT_JOB", "EDUCATION",
   "FINAL_EDUCATION", H2_DETAILS}

\* C16: for a record with any fields or nested parts absent or empty, the
\* document holds no "undefined" and no "null", each missing value is a blank
\* field, and every fixed section and table row is there.
C16_MissingFieldRendering ==
  fx.fn = "format"
    => /\ ~fx.thrown
       /\ Tokens(fx.out) \cap {"undefined", "null"} = {}
       /\ FixedSections \subseteq Tokens(fx.out)
       /\ Falsy(fx.rec.name)
            => IsInfix(<<"|", SP, "NAME", SP, "|", SP, SP, "|", NL>>, fx.out)
       /\ Falsy(fx.rec.summary)
            => IsInfix(<<"SUMMARY", NL, NL, NL, NL, "##">>, fx.out)

\* a record of type FormData: every nested part but the optional list of
\* additional educations is there
TypedRecord == fx.absent \subseteq {"educationHistories"}

\* C17: the document ends with the details header, a blank line and the
\* body: the description if it is not empty, the placeholder prompt if it is.
C17_DetailsSectionIsLast ==
  (fx.fn = "format" /\ TypedRecord)
    => LET description == fx.rec.description
           body == IF description = <<>> \/ description = Undef
                     THEN <<"PLACEHOLDER_PROMPT">> ELSE description
       IN /\ IsSuffix(<<NL, NL, H2_DETAILS, NL, NL>> \o body, fx.out)
          /\ body # <<>>

C17_Witness ==
  /\ fx.fn = "format" /\ TypedRecord
  /\ fx.rec.description = Undef
  /\ fx.rec.educationHistories # <<>>
  /\ IsSuffix(<<H2_DETAILS, NL, NL, "PLACEHOLDER_PROMPT">>, fx.out)

\* C18: the document holds the additional-education header exactly when the
\* list of additional educations has an entry; with an empty or absent list
\* it holds neither the header nor an entry body.
C18_AdditionalEducationOmission ==
  (fx.fn = "format" /\ TypedRecord)
    => /\ "OTHER_EDUCATION" \in Tokens(fx.out)
            <=> Len(fx.rec.educationHistories) >= 1
       /\ Len(fx.rec.educationHistories) >= 1
            => IsInfix(<<NL, NL, "###", SP, "OTHER_EDUCATION", NL, NL, "###", SP>>,
                       fx.out)
       /\ fx.rec.educationHistories = <<>>
            => /\ Tokens(fx.out) \cap {"**GRADUATED:**", "**DEPARTMENT:**",
                                        "**FACULTY:**", "**MAJOR:**"} = {}
               /\ IsInfix(<<"GRADUATION", NL, NL, NL, NL, H2_DETAILS>>, fx.out)

C18_Witness ==
  /\ fx.fn = "format" /\ TypedRecord
  /\ fx.rec.educationHistories = <<UndefEdu>>
  /\ "OTHER_EDUCATION" \in Tokens(fx.out)

\* C19: when the parse of an input holds no details marker, parsing it again
\* gives it back.
C19_ParserIdempotence ==
  (fx.fn = "parse" /\ ~HasMarker(fx.out))
    => parseTemplateContent(fx.out) = fx.out

C19_Witness ==
  /\ fx.fn = "parse"
  /\ HasMarker(fx.text)
  /\ ~HasMarker(fx.out)
  /\ H2_DETAILS \in Tokens(fx.out)
  /\ fx.out # fx.text

\* the key of the surface as of the last render
Key == surfaceKey(variant, internalIsEditing, formData)

\* C20: from one render to the next the key of the surface changes exactly
\* when the internal editing flag changes, and the surface mounted on a
\* change of the flag is given formatTemplateContent of the record of that
\* render as its content.
C20_RemountOnToggle ==
  [][(effectsRun /\ effectsRun')
       => /\ (Key' # Key) <=> (internalIsEditing' # internalIsEditing)
          /\ (internalIsEditing' # internalIsEditing)
               => editorContent' = formatTemplateContent(formData')]_vars

\* the surface change last handled was propagated, and the page has rendered
\* everything that followed from it
EditSettled ==
  /\ last.op = "handleEditorChange" /\ OnEditCalls(last.calls) # {}
  /\ mounted /\ effectsRun /\ ~Dirty

\* C21: a surface change in Editing state changes no field of the record but
\* the description, and once the page has rendered what followed from it the
\* displayed content is formatTemplateContent of the record, whose details
\* section is the parse of what the surface reported: the rest of what the
\* surface reported is gone.
C21_OnlyDetailsRoundTrip ==
  /\ [][(Invoked("handleEditorChange") /\ internalIsEditing)
         => \A f \in DOMAIN EmptyFormData \ {"description"} :
              queued'.formData[f] = queued.formData[f]]_vars
  /\ [](EditSettled
          => /\ editorContent = formatTemplateContent(formData)
             /\ formData.description = parseTemplateContent(last.arg))

C21_Witness ==
  /\ EditSettled
  /\ last.arg = <<"t", NL, H2_DETAILS, NL, NL, "y", SP>>
  /\ formData.description = <<"y">>
  /\ formData.name = <<"n">>
  /\ "t" \notin Tokens(editorContent)
  /\ editorContent # last.arg

\* C22: once the displayed content has been set from the record it is never
\* empty again, whatever the record changes, the mode toggles and the surface
\* changes (the empty string among them) that follow.
C22_DisplayedContentNeverEmpty ==
  [][editorContent # <<>> => editorContent' # <<>>]_vars

\* the user's edit of the surface was the last thing handled
UserEdited == last.op = "handleEditorChange" /\ last.outcome = "user"

\* C23: an edit the user makes on the surface of a settled page in Editing
\* state is propagated by exactly one onEdit; the content the page then pushes
\* back to the surface invokes no handler and changes nothing of the page;
\* and the page settles again, with the displayed content equal to
\* formatTemplateContent of the record.
C23_NoFeedbackLoop ==
  /\ [][(Invoked("handleEditorChange") /\ last'.outcome = "user")
         => Cardinality(OnEditCalls(last'.calls)) = 1]_vars
  /\ [][surface'.tick # surface.tick => (last' = last /\ queued' = queued)]_vars
  /\ [][Invoked("handleEditorChange") => last'.outcome = "user"]_vars
  /\ UserEdited
       ~> (Quiescent /\ editorContent = formatTemplateContent(formData))

C23_Witness ==
  /\ UserEdited
  /\ Cardinality(OnEditCalls(last.calls)) = 1
  /\ Quiescent /\ internalIsEditing
  /\ surface.applied = "ok" /\ surface.value = editorContent
  /\ surface.html # last.arg
  /\ formData.description = <<"y">>
  /\ editorContent = formatTemplateContent(formData)

\* a date the formatter was given that is not empty and holds no "-"
NoSeparator ==
  /\ fx.fn = "formatDate"
  /\ fx.text # <<>> /\ fx.text # Undef
  /\ "-" \notin Tokens(fx.text)

\* C24: formatDate gives "" for an empty or absent date, gives "2024", year
\* marker, "04", month marker for "2024-04", and gives a date without "-" back
\* as it is.
C24_DateRendering ==
  fx.fn = "formatDate"
    => /\ (fx.text = <<>> \/ fx.text = Undef) => fx.out = <<>>
       /\ fx.text = <<"2024", "-", "04">>
            => fx.out = <<"2024", "NEN", "04", "GATSU">>
       /\ NoSeparator => fx.out = fx.text

\* C24 as amended: formatDate gives "" for an empty or absent date; for any
\* other date it gives the date with its first "-", if it has one, turned into
\* the year marker and everything else as it is, followed by the month
\* marker; so a date without "-" comes back whole with the month marker
\* after it.
C24_DateRenderingAmended ==
  fx.fn = "formatDate"
    => /\ (fx.text = <<>> \/ fx.text = Undef) => fx.out = <<>>
       /\ fx.text = <<"2024", "-", "04">>
            => fx.out = <<"2024", "NEN", "04", "GATSU">>
       /\ (fx.text # <<>> /\ fx.text # Undef)
            => /\ Len(fx.out) = Len(fx.text) + 1
               /\ fx.out[Len(fx.out)] = "GATSU"
               /\ \A i \in 1..Len(fx.text) :
                    fx.out[i] =
                      IF fx.text[i] = "-"
                           /\ \A j \in 1..(i - 1) : fx.text[j] # "-"
                        THEN "NEN" ELSE fx.text[i]
       /\ NoSeparator => fx.out = fx.text \o <<"GATSU">>

C24_Witness ==
  /\ fx.fn = "formatDate"
  /\ fx.text = <<"2024", "-", "04", "-">>
  /\ fx.out = <<"2024", "NEN", "04", "-", "GATSU">>

\* C25: handleFinishEdit invoked while the displayed content is
\* formatTemplateContent of the record calls onEdit with the description the
\* record has, an empty description included, and leaves the record as it is.
C25_FinishWithoutEditsChangesNothing ==
  [][(Invoked("handleFinishEdit") /\ queued.formData = formData
        /\ editorContent = formatTemplateContent(formData))
       => /\ \A i \in OnEditCalls(last'.calls) :
               last'.calls[i].text = formData.description
          /\ queued'.formData = formData]_vars

\* C26: once handleFinishEditing has set the editing flag to false, the flag
\* stays false as long as handleDirectEdit is not invoked again: no timer
\* scheduled earlier sets it back to true.
C26_FinishIsFinal ==
  [][(last.finished /\ last'.finished /\ ~queued.isEditing)
       => ~queued'.isEditing]_vars

====
